---- MODULE Spec2Model ----
(***************************************************************************)
(* Model of the Sage Accounting MCP server (src/src/index.ts): the         *)
(* authenticated request gateway (sageRequest, refreshAccessToken), the    *)
(* shared in-memory access token, and the tool-call handler with its       *)
(* dispatch switch and its catch-all error boundary.                       *)
(*                                                                         *)
(* JavaScript values are tagged records (t = "undefined", "str", "num",    *)
(* "bool", "arr", "obj").  Texts (error messages, headers, paths) are      *)
(* sequences of string fragments, in the order the template literal        *)
(* concatenates them.                                                      *)
(***************************************************************************)
EXTENDS Integers, Sequences, FiniteSets, TLC

\* ------------------------------------------------------------------------
\* Bounds
\* ------------------------------------------------------------------------

\* number of tool invocations a behaviour contains
MaxInv == 2

Invs == 1..MaxInv

\* ------------------------------------------------------------------------
\* JavaScript values
\* ------------------------------------------------------------------------

Undefined == [t |-> "undefined"]

Null == [t |-> "null"]

Str(s) == [t |-> "str", s |-> s]

Num(n) == [t |-> "num", n |-> n]

Bool(b) == [t |-> "bool", b |-> b]

Arr(a) == [t |-> "arr", a |-> a]

Obj(f) == [t |-> "obj", f |-> f]

EmptyObj == Obj(<<>>)

\* JavaScript truthiness: undefined, "", 0 and false are falsy
Truthy(v) ==
  CASE v.t = "undefined" -> FALSE
    [] v.t = "null" -> FALSE
    [] v.t = "str" -> v.s # ""
    [] v.t = "num" -> v.n # 0
    [] v.t = "bool" -> v.b
    [] OTHER -> TRUE

\* String(v) / template-literal interpolation of a primitive
ToStr(v) ==
  CASE v.t = "undefined" -> "undefined"
    [] v.t = "null" -> "null"
    [] v.t = "str" -> v.s
    [] v.t = "num" -> ToString(v.n)
    [] v.t = "bool" -> (IF v.b THEN "true" ELSE "false")
    [] OTHER -> "[object Object]"

\* property read o.k on an object value (undefined when the key is absent)
Get(o, k) == IF k \in DOMAIN o.f THEN o.f[k] ELSE Undefined

\* the object { k: o.k, ... } for the keys given, read from o
Pick(o, keys) == [k \in keys |-> Get(o, k)]

RECURSIVE JsonWire(_)
\* the JSON document JSON.stringify(value) writes: a key whose value is
\* undefined is left out, an undefined array element becomes null
JsonWire(v) ==
  CASE v.t = "obj" ->
         Obj([k \in {x \in DOMAIN v.f : v.f[x].t # "undefined"} |-> JsonWire(v.f[k])])
    [] v.t = "arr" ->
         Arr([j \in 1..Len(v.a) |->
                IF v.a[j].t = "undefined" THEN Null ELSE JsonWire(v.a[j])])
    [] OTHER -> v

\* the clock: new Date().toISOString() gives <date>T<time>
ToISOString(now) == <<now.date, "T", now.time>>

\* new Date().toISOString().split("T")[0]
Today(now) == ToISOString(now)[1]

\* ------------------------------------------------------------------------
\* Results of evaluating code that may throw
\* ------------------------------------------------------------------------

Return(v) == [ok |-> TRUE, value |-> v]

Throw(msg) == [ok |-> FALSE, error |-> msg]

\* ------------------------------------------------------------------------
\* HTTP responses
\* ------------------------------------------------------------------------

\* Response.ok
IsOk(status) == status >= 200 /\ status <= 299

\* Response.statusText
StatusText(status) ==
  CASE status = 200 -> "OK"
    [] status = 401 -> "Unauthorized"
    [] status = 403 -> "Forbidden"
    [] OTHER -> ""

\* Raw bodies, as fragments of their text: a JSON array of one string, a
\* JSON object with an access_token, an empty JSON object, and a page that
\* is not JSON
ArrayBody(str) == <<"[\"", str, "\"]">>

TokenBody(token) == <<"{\"access_token\":\"", token, "\"}">>

EmptyBody == <<"{}">>

HtmlBody == <<"<html>">>

\* Response.json(): the decoded body, or a SyntaxError
JsonParse(raw) ==
  CASE raw = EmptyBody -> Return(EmptyObj)
    [] Len(raw) = 3 /\ raw[1] = "[\"" /\ raw[3] = "\"]" -> Return(Arr(<<Str(raw[2])>>))
    [] Len(raw) = 3 /\ raw[1] = "{\"access_token\":\"" /\ raw[3] = "\"}" ->
         Return(Obj("access_token" :> Str(raw[2])))
    [] OTHER -> Throw(<<"Unexpected token '<', \"">> \o raw \o <<"\" is not valid JSON">>)

RECURSIVE JsonStringify(_)
\* JSON.stringify(value, null, 2), as the fragments of the indented text, for
\* the values a decoded body holds here: primitives, arrays of one element
\* and objects of at most one key
JsonStringify(v) ==
  CASE v.t = "num" -> <<ToString(v.n)>>
    [] v.t = "str" -> <<"\"", v.s, "\"">>
    [] v.t = "bool" -> <<ToStr(v)>>
    [] v.t = "arr" ->
         IF v.a = <<>> THEN <<"[]">>
         ELSE <<"[", "\n  ">> \o JsonStringify(v.a[1]) \o <<"\n", "]">>
    [] v.t = "obj" ->
         IF DOMAIN v.f = {} THEN <<"{}">>
         ELSE LET k == CHOOSE x \in DOMAIN v.f : TRUE
              IN <<"{", "\n  ", "\"", k, "\": ">> \o JsonStringify(v.f[k]) \o <<"\n", "}">>
    [] OTHER -> <<>>

\* a completed fetch: the response, or the rejection of the fetch promise
NetworkError == [net |-> FALSE]

HttpResponse(status, raw) == [net |-> TRUE, status |-> status, body |-> raw]

\* what a fetch of the resource endpoint may complete with
ResourceResponses ==
  { HttpResponse(200, ArrayBody("ok")), HttpResponse(200, HtmlBody),
    HttpResponse(401, ArrayBody("unauthorized")),
    HttpResponse(403, ArrayBody("forbidden")), NetworkError }

\* what a fetch of the token endpoint may complete with; a token it issues
\* is a new one
TokenResponses(newToken) ==
  { HttpResponse(200, TokenBody(newToken)), HttpResponse(200, EmptyBody),
    HttpResponse(200, HtmlBody), HttpResponse(401, ArrayBody("invalid_grant")),
    NetworkError }

\* the TypeError fetch rejects with
FetchFailed == <<"fetch failed">>

\* ------------------------------------------------------------------------
\* Tool dispatch: the switch of the CallTool handler
\* ------------------------------------------------------------------------

\* the names the switch has a case for
ListTools ==
  { "sage_list_contacts", "sage_list_sales_invoices",
    "sage_list_purchase_invoices", "sage_list_products",
    "sage_list_payments", "sage_list_ledger_accounts" }

PlainTools == { "sage_list_bank_accounts", "sage_list_tax_rates", "sage_get_business" }

GetTools == { "sage_get_contact", "sage_get_sales_invoice", "sage_get_bank_account" }

CreateTools ==
  { "sage_create_contact", "sage_create_sales_invoice", "sage_create_product",
    "sage_create_other_payment", "sage_create_other_receipt",
    "sage_create_purchase_invoice", "sage_create_purchase_invoice_payment" }

\* the names of the tool descriptors the ListTools handler returns
ListedToolNames ==
  { "sage_list_contacts", "sage_get_contact", "sage_create_contact",
    "sage_list_sales_invoices", "sage_get_sales_invoice", "sage_create_sales_invoice",
    "sage_list_purchase_invoices", "sage_list_bank_accounts", "sage_get_bank_account",
    "sage_list_products", "sage_create_product", "sage_list_payments",
    "sage_list_ledger_accounts", "sage_list_tax_rates", "sage_get_business",
    "sage_create_other_payment", "sage_create_other_receipt",
    "sage_create_purchase_invoice", "sage_create_purchase_invoice_payment" }

\* a switch that has lost its case for sage_get_business
CaseNamesWithoutBusiness ==
  ListTools \cup (PlainTools \ {"sage_get_business"}) \cup GetTools \cup CreateTools

CaseNames == ListTools \cup PlainTools \cup GetTools \cup CreateTools

\* the collection path of each case
BasePath(name) ==
  CASE name \in {"sage_list_contacts", "sage_get_contact", "sage_create_contact"} -> "/contacts"
    [] name \in {"sage_list_sales_invoices", "sage_get_sales_invoice",
                 "sage_create_sales_invoice"} -> "/sales_invoices"
    [] name \in {"sage_list_purchase_invoices", "sage_create_purchase_invoice"} -> "/purchase_invoices"
    [] name \in {"sage_list_bank_accounts", "sage_get_bank_account"} -> "/bank_accounts"
    [] name \in {"sage_list_products", "sage_create_product"} -> "/products"
    [] name \in {"sage_list_payments", "sage_create_purchase_invoice_payment"} -> "/contact_payments"
    [] name = "sage_list_ledger_accounts" -> "/ledger_accounts"
    [] name = "sage_list_tax_rates" -> "/tax_rates"
    [] name = "sage_get_business" -> "/business"
    [] name = "sage_create_other_payment" -> "/other_payments"
    [] name = "sage_create_other_receipt" -> "/other_receipts"
    [] OTHER -> ""

\* the filters of a list case, in the order the case appends them:
\* <<argument, query key, condition>>
Filters(name) ==
  CASE name = "sage_list_contacts" ->
         << <<"contact_type", "contact_type_id", "notAll">>,
            <<"search", "search", "truthy">>,
            <<"page", "page", "truthy">>,
            <<"items_per_page", "items_per_page", "truthy">> >>
    [] name = "sage_list_sales_invoices" ->
         << <<"status", "status_id", "truthy">>,
            <<"contact_id", "contact_id", "truthy">>,
            <<"from_date", "from_date", "truthy">>,
            <<"to_date", "to_date", "truthy">>,
            <<"page", "page", "truthy">>,
            <<"items_per_page", "items_per_page", "truthy">> >>
    [] name = "sage_list_purchase_invoices" ->
         << <<"status", "status_id", "truthy">>,
            <<"contact_id", "contact_id", "truthy">>,
            <<"from_date", "from_date", "truthy">>,
            <<"to_date", "to_date", "truthy">>,
            <<"page", "page", "truthy">> >>
    [] name = "sage_list_products" ->
         << <<"search", "search", "truthy">>,
            <<"active", "active", "defined">>,
            <<"page", "page", "truthy">> >>
    [] name = "sage_list_payments" ->
         << <<"contact_id", "contact_id", "truthy">>,
            <<"from_date", "from_date", "truthy">>,
            <<"to_date", "to_date", "truthy">>,
            <<"page", "page", "truthy">> >>
    [] name = "sage_list_ledger_accounts" ->
         << <<"ledger_account_type_id", "ledger_account_type_id", "truthy">>,
            <<"visible_in", "visible_in", "truthy">> >>
    [] OTHER -> <<>>

\* a list case that tests every filter, active included, for truthiness only
EmitsTruthy(filter, v) == Truthy(v)

\* a list case that appends every filter it knows, supplied or not
EmitsAlways(filter, v) == TRUE

\* the condition under which a list case appends a filter
Emits(filter, v) ==
  CASE filter[3] = "notAll" -> Truthy(v) /\ v # Str("all")
    [] filter[3] = "defined" -> v # Undefined
    [] OTHER -> Truthy(v)

RECURSIVE QueryParams(_, _)
\* the URLSearchParams a list case builds: <<key, value>> pairs in order
QueryParams(filters, params) ==
  IF filters = <<>> THEN <<>>
  ELSE LET f == Head(filters)
           v == Get(params, f[1])
       IN (IF Emits(f, v) THEN << <<f[2], ToStr(v)>> >> ELSE <<>>)
            \o QueryParams(Tail(filters), params)

\* application/x-www-form-urlencoded serialisation of a string: a space
\* becomes "+"; the other strings used here have no character to escape
FormEncode(str) ==
  CASE str = "acme ltd" -> "acme+ltd"
    [] OTHER -> str

RECURSIVE QueryString(_)
\* URLSearchParams.toString(): key=value pairs joined by "&"
QueryString(pairs) ==
  IF pairs = <<>> THEN <<>>
  ELSE <<FormEncode(pairs[1][1]), "=", FormEncode(pairs[1][2])>>
         \o (IF Len(pairs) > 1 THEN <<"&">> ELSE <<>>)
         \o QueryString(Tail(pairs))

\* the endpoint of a list case: `/contacts${query ? `?${query}` : ""}`
ListEndpoint(name, params) ==
  LET query == QueryString(QueryParams(Filters(name), params))
  IN <<BasePath(name)>> \o (IF query # <<>> THEN <<"?">> \o query ELSE <<>>)

\* the argument a get case interpolates into its path
IdParam(name) ==
  CASE name = "sage_get_contact" -> "contact_id"
    [] name = "sage_get_sales_invoice" -> "invoice_id"
    [] name = "sage_get_bank_account" -> "bank_account_id"
    [] OTHER -> ""

\* the first property of params a case reads
FirstRead(name) ==
  CASE name \in ListTools -> Filters(name)[1][1]
    [] name \in GetTools -> IdParam(name)
    [] name = "sage_create_contact" -> "name"
    [] name = "sage_create_product" -> "description"
    [] name \in {"sage_create_other_payment", "sage_create_other_receipt"} -> "bank_account_id"
    [] OTHER -> "contact_id"

\* the array argument a create case maps over ("" when it has none)
MappedParam(name) ==
  CASE name \in {"sage_create_sales_invoice", "sage_create_purchase_invoice"} -> "line_items"
    [] name = "sage_create_purchase_invoice_payment" -> "invoice_allocations"
    [] OTHER -> ""

\* TypeError of a property read on undefined
CannotRead(prop) == <<"Cannot read properties of undefined (reading '", prop, "')">>

\* the default case's error without the name it was given
UnknownToolUnnamed(name) == <<"Unknown tool">>

\* the error of the default case
UnknownTool(name) == <<"Unknown tool: ", name>>

\* an entry of invoice_lines that writes null for a tax rate or ledger
\* account the item does not have
InvoiceLineNullsAbsent(item) ==
  Obj(Pick(item, {"description", "quantity", "unit_price"})
        @@ [k \in {"tax_rate_id", "ledger_account_id"} |->
              IF Get(item, k) = Undefined THEN Null ELSE Get(item, k)])

\* one entry of invoice_lines
InvoiceLine(item) ==
  Obj(Pick(item, {"description", "quantity", "unit_price", "tax_rate_id",
                  "ledger_account_id"}))

\* one entry of allocated_artefacts
Allocation(alloc) ==
  Obj("artefact_id" :> Get(alloc, "invoice_id") @@ "amount" :> Get(alloc, "amount"))

\* line_items.map(...): one entry per item, in order
InvoiceLines(items) == Arr([j \in 1..Len(items.a) |-> InvoiceLine(items.a[j])])

\* invoice_allocations.map(...): one entry per allocation, in order
Allocations(allocs) == Arr([j \in 1..Len(allocs.a) |-> Allocation(allocs.a[j])])

\* the date of a created invoice, defaulted only when no date is supplied
InvoiceDateUnlessSupplied(params, now) ==
  IF Get(params, "date") # Undefined THEN Get(params, "date") ELSE Str(Today(now))

\* the date of a created invoice: params.date || today
InvoiceDate(params, now) ==
  IF Truthy(Get(params, "date")) THEN Get(params, "date") ELSE Str(Today(now))

\* the fields of a created sales or purchase invoice
InvoiceFields(params, now) ==
  Obj(Pick(params, {"contact_id", "due_date", "reference", "notes"})
        @@ "date" :> InvoiceDate(params, now)
        @@ "invoice_lines" :> InvoiceLines(Get(params, "line_items")))

\* the fields of an other payment or other receipt
OtherPaymentFields(params) ==
  Obj(Pick(params, {"bank_account_id", "date", "reference", "contact_id"})
        @@ "payment_lines" :>
             Arr(<< Obj(Pick(params, {"ledger_account_id", "total_amount", "net_amount",
                                      "tax_rate_id"})) >>))

\* the body object a create case builds
Body(name, params, now) ==
  CASE name = "sage_create_contact" ->
         Obj("contact" :>
           Obj(Pick(params, {"name", "reference", "email", "telephone"})
                 @@ "contact_type_ids" :>
                      (IF Truthy(Get(params, "contact_type_ids"))
                       THEN Get(params, "contact_type_ids") ELSE Arr(<<>>))
                 @@ "main_address" :>
                      Obj(Pick(params, {"address_line_1", "city", "postal_code",
                                        "country_id"}))))
    [] name = "sage_create_sales_invoice" ->
         Obj("sales_invoice" :> InvoiceFields(params, now))
    [] name = "sage_create_purchase_invoice" ->
         Obj("purchase_invoice" :> InvoiceFields(params, now))
    [] name = "sage_create_product" ->
         Obj("product" :>
           Obj(Pick(params, {"description", "item_code", "sales_ledger_account_id",
                             "purchase_ledger_account_id", "sales_tax_rate_id",
                             "purchase_tax_rate_id", "purchase_price"})
                 @@ "sales_prices" :>
                      (IF Truthy(Get(params, "sales_price"))
                       THEN Arr(<< Obj("price" :> Get(params, "sales_price")) >>)
                       ELSE Undefined)))
    [] name = "sage_create_other_payment" ->
         Obj("other_payment" :> OtherPaymentFields(params))
    [] name = "sage_create_other_receipt" ->
         Obj("other_receipt" :> OtherPaymentFields(params))
    [] name = "sage_create_purchase_invoice_payment" ->
         Obj("contact_payment" :>
           Obj(Pick(params, {"contact_id", "bank_account_id", "date", "total_amount",
                             "reference"})
                 @@ "allocated_artefacts" :>
                      Allocations(Get(params, "invoice_allocations"))))
    [] OTHER -> Undefined

\* the endpoint, method and body a case passes to sageRequest, or the error
\* the case throws before it gets there
Dispatch(name, params, now) ==
  CASE name \notin CaseNames -> Throw(UnknownTool(name))
    [] name \in PlainTools ->
         Return([endpoint |-> <<BasePath(name)>>, method |-> "GET", body |-> Undefined])
    [] params = Undefined -> Throw(CannotRead(FirstRead(name)))
    [] name \in ListTools ->
         Return([endpoint |-> ListEndpoint(name, params), method |-> "GET",
                 body |-> Undefined])
    [] name \in GetTools ->
         Return([endpoint |-> <<BasePath(name), "/", ToStr(Get(params, IdParam(name)))>>,
                 method |-> "GET", body |-> Undefined])
    [] OTHER ->
         IF MappedParam(name) # "" /\ Get(params, MappedParam(name)) = Undefined
         THEN Throw(CannotRead("map"))
         ELSE Return([endpoint |-> <<BasePath(name)>>, method |-> "POST",
                      body |-> Body(name, params, now)])

\* the properties of each tool's input schema
Properties(name) ==
  CASE name = "sage_list_contacts" -> {"contact_type", "search", "page", "items_per_page"}
    [] name = "sage_list_sales_invoices" ->
         {"status", "contact_id", "from_date", "to_date", "page", "items_per_page"}
    [] name = "sage_list_purchase_invoices" ->
         {"status", "contact_id", "from_date", "to_date", "page"}
    [] name = "sage_list_products" -> {"search", "active", "page"}
    [] name = "sage_list_payments" -> {"contact_id", "from_date", "to_date", "page"}
    [] name = "sage_list_ledger_accounts" -> {"ledger_account_type_id", "visible_in"}
    [] name = "sage_get_contact" -> {"contact_id"}
    [] name = "sage_get_sales_invoice" -> {"invoice_id"}
    [] name = "sage_get_bank_account" -> {"bank_account_id"}
    [] name = "sage_create_contact" ->
         {"name", "contact_type_ids", "reference", "email", "telephone",
          "address_line_1", "city", "postal_code", "country_id"}
    [] name \in {"sage_create_sales_invoice", "sage_create_purchase_invoice"} ->
         {"contact_id", "date", "due_date", "reference", "notes", "line_items"}
    [] name = "sage_create_product" ->
         {"description", "sales_ledger_account_id", "purchase_ledger_account_id",
          "sales_tax_rate_id", "purchase_tax_rate_id", "item_code", "sales_price",
          "purchase_price"}
    [] name \in {"sage_create_other_payment", "sage_create_other_receipt"} ->
         {"bank_account_id", "date", "total_amount", "tax_rate_id", "ledger_account_id",
          "contact_id", "reference", "net_amount"}
    [] name = "sage_create_purchase_invoice_payment" ->
         {"contact_id", "bank_account_id", "date", "total_amount", "invoice_allocations",
          "reference"}
    [] OTHER -> {}

\* the properties each tool's input schema requires
Required(name) ==
  CASE name \in GetTools -> {IdParam(name)}
    [] name = "sage_create_contact" -> {"name"}
    [] name \in {"sage_create_sales_invoice", "sage_create_purchase_invoice"} ->
         {"contact_id", "line_items"}
    [] name = "sage_create_product" -> {"description"}
    [] name \in {"sage_create_other_payment", "sage_create_other_receipt"} ->
         {"bank_account_id", "date", "total_amount", "tax_rate_id", "ledger_account_id"}
    [] name = "sage_create_purchase_invoice_payment" ->
         {"contact_id", "bank_account_id", "date", "total_amount", "invoice_allocations"}
    [] OTHER -> {}

\* ------------------------------------------------------------------------
\* State
\* ------------------------------------------------------------------------

VARIABLES
  SAGE_CLIENT_ID,      \* process.env.SAGE_CLIENT_ID || ""
  SAGE_CLIENT_SECRET,  \* process.env.SAGE_CLIENT_SECRET || ""
  SAGE_ACCESS_TOKEN,   \* process.env.SAGE_ACCESS_TOKEN || ""
  SAGE_REFRESH_TOKEN,  \* process.env.SAGE_REFRESH_TOKEN || ""
  currentAccessToken,  \* the module-level token, shared by all invocations
  pc,                  \* where each invocation of the handler stands
  name,                \* request.params.name of each invocation
  request,             \* endpoint and method the invocation passed to sageRequest
  sent,                \* the fetch calls each invocation has made, in order
  received,            \* the fetch completions each invocation has seen, in order
  refreshes,           \* calls of refreshAccessToken made by each invocation
  thrown,              \* the error caught by the handler's catch, if any
  result,              \* what the handler returned to the transport
  writes,              \* completed refreshes, in order: who, and the token received
  startedAfter,        \* number of completed refreshes when the invocation began
  call                 \* request.params and the clock of the invocation under study

env == <<SAGE_CLIENT_ID, SAGE_CLIENT_SECRET, SAGE_ACCESS_TOKEN, SAGE_REFRESH_TOKEN>>

vars ==
  <<SAGE_CLIENT_ID, SAGE_CLIENT_SECRET, SAGE_ACCESS_TOKEN, SAGE_REFRESH_TOKEN,
    currentAccessToken, pc, name, request, sent, received, refreshes, thrown,
    result, writes, startedAfter, call>>

BASE_URL == "https://api.accounting.sage.com/v3.1"

TOKEN_URL == "https://oauth.accounting.sage.com/token"

NoRequest == [endpoint |-> <<>>, method |-> "", body |-> Undefined]

NoError == <<>>

NoResult == [kind |-> "none"]

\* tool names an invocation may carry: a case that reads no argument, a
\* create case that maps over an array argument, and a name the switch has
\* no case for
ToolNames == { "sage_list_bank_accounts", "sage_create_sales_invoice", "sage_delete_contact" }

\* argument bags an invocation may carry: no arguments at all, an empty
\* object, and the fields of an invoice with one line item
ArgBags ==
  { Undefined,
    EmptyObj,
    Obj("contact_id" :> Str("C1")
          @@ "line_items" :> Arr(<< Obj("description" :> Str("Widget")) >>)) }

\* what the clock may read when a tool is invoked
Clocks == { [date |-> "2026-11-05", time |-> "10:15:00.000Z"] }

\* no invocation is singled out
NoCall == [name |-> "", arguments |-> Undefined, now |-> [date |-> "", time |-> ""]]

Init ==
  /\ SAGE_CLIENT_ID \in {"", "client-id"}
  /\ SAGE_CLIENT_SECRET \in {"", "client-secret"}
  /\ SAGE_ACCESS_TOKEN \in {"", "AT0"}
  /\ SAGE_REFRESH_TOKEN \in {"", "RT0"}
  /\ currentAccessToken = Str(SAGE_ACCESS_TOKEN)
  /\ pc = [i \in Invs |-> "idle"]
  /\ name = [i \in Invs |-> ""]
  /\ request = [i \in Invs |-> NoRequest]
  /\ sent = [i \in Invs |-> <<>>]
  /\ received = [i \in Invs |-> <<>>]
  /\ refreshes = [i \in Invs |-> 0]
  /\ thrown = [i \in Invs |-> NoError]
  /\ result = [i \in Invs |-> NoResult]
  /\ writes = <<>>
  /\ startedAfter = [i \in Invs |-> 0]
  /\ call = NoCall

\* ------------------------------------------------------------------------
\* The handler's boundary (try / catch around the switch)
\* ------------------------------------------------------------------------

NoAccessToken ==
  <<"No access token configured. Please set SAGE_ACCESS_TOKEN in environment.">>

CannotRefresh ==
  <<"Cannot refresh token: missing SAGE_REFRESH_TOKEN, SAGE_CLIENT_ID, or SAGE_CLIENT_SECRET">>

RefreshFailed(r) ==
  <<"Token refresh failed: ", ToString(r.status), " ", StatusText(r.status)>>

\* the error of a failed retry: status and status text
RetryApiError(r) ==
  <<"Sage API error: ", ToString(r.status), " ", StatusText(r.status)>>

\* the error of a failed first attempt: status, status text and response text
FirstApiError(r) ==
  <<"Sage API error: ", ToString(r.status), " ", StatusText(r.status), " - ">> \o r.body

\* the handler without its catch: an error leaves it as a rejected promise
RespondUncaught(outcome) ==
  IF outcome.ok
  THEN [kind |-> "response", isError |-> FALSE, text |-> JsonStringify(outcome.value)]
  ELSE [kind |-> "fault", isError |-> TRUE, text |-> outcome.error]

\* what the handler returns for the outcome of its try block
Respond(outcome) ==
  IF outcome.ok
  THEN [kind |-> "response", isError |-> FALSE, text |-> JsonStringify(outcome.value)]
  ELSE [kind |-> "response", isError |-> TRUE, text |-> <<"Error: ">> \o outcome.error]

\* the handler returns: the invocation is over
Finish(i, outcome) ==
  /\ pc' = [pc EXCEPT ![i] = "done"]
  /\ thrown' = [thrown EXCEPT ![i] = IF outcome.ok THEN NoError ELSE outcome.error]
  /\ result' = [result EXCEPT ![i] = Respond(outcome)]

\* ------------------------------------------------------------------------
\* sageRequest and refreshAccessToken
\* ------------------------------------------------------------------------

\* sageRequest without its guard
HasAccessTokenUnchecked(token) == TRUE

\* the guard of sageRequest: a token is configured
HasAccessToken(token) == Truthy(token)

\* the Authorization header built from the token
Bearer(token) == <<"Bearer ", ToStr(token)>>

\* options.body: the JSON of the body, for a POST or PUT that has one
SerializedBody(req) ==
  IF Truthy(req.body) /\ req.method \in {"POST", "PUT"}
  THEN JsonWire(req.body)
  ELSE Undefined

\* the fetch of sageRequest with the header built from the startup token
ResourceFetchStartupToken(req, token) ==
  [to |-> "resource", url |-> <<BASE_URL>> \o req.endpoint, method |-> req.method,
   authorization |-> Bearer(Str(SAGE_ACCESS_TOKEN)), body |-> SerializedBody(req)]

\* the fetch of sageRequest: url, method, headers and body
ResourceFetch(req, token) ==
  [to |-> "resource", url |-> <<BASE_URL>> \o req.endpoint, method |-> req.method,
   authorization |-> Bearer(token), body |-> SerializedBody(req)]

\* the fetch of refreshAccessToken: the form it posts
TokenFetch ==
  [to |-> "token", url |-> <<TOKEN_URL>>, method |-> "POST",
   form |-> << <<"grant_type", "refresh_token">>,
               <<"refresh_token", SAGE_REFRESH_TOKEN>>,
               <<"client_id", SAGE_CLIENT_ID>>,
               <<"client_secret", SAGE_CLIENT_SECRET>> >>]

\* a precondition that looks at the refresh token only
CanRefreshTokenOnly == SAGE_REFRESH_TOKEN # ""

\* the precondition of a refresh
CanRefresh == SAGE_REFRESH_TOKEN # "" /\ SAGE_CLIENT_ID # "" /\ SAGE_CLIENT_SECRET # ""

\* a refresh that keeps a token another refresh has already stored
RefreshedTokenFirstWins(data) ==
  IF currentAccessToken # Str(SAGE_ACCESS_TOKEN)
  THEN currentAccessToken
  ELSE Get(data, "access_token")

\* the access token the token endpoint issues next: every refresh is
\* answered with a token not seen before
NewToken == "AT" \o ToString(Len(writes) + 1)

\* what the refresh stores, given the decoded token response
RefreshedToken(data) == Get(data, "access_token")

\* the handler runs for a request: the switch shapes the arguments and calls
\* sageRequest, which checks the token and issues the first fetch
Invoke(i, n, params, now) ==
  LET d == Dispatch(n, params, now) IN
    /\ name' = [name EXCEPT ![i] = n]
    /\ startedAfter' = [startedAfter EXCEPT ![i] = Len(writes)]
    /\ IF ~d.ok
       THEN /\ Finish(i, d)
            /\ UNCHANGED <<request, sent>>
       ELSE /\ request' = [request EXCEPT ![i] = d.value]
            /\ IF ~HasAccessToken(currentAccessToken)
               THEN /\ Finish(i, Throw(NoAccessToken))
                    /\ UNCHANGED sent
               ELSE /\ sent' = [sent EXCEPT
                           ![i] = <<ResourceFetch(d.value, currentAccessToken)>>]
                    /\ pc' = [pc EXCEPT ![i] = "fetch"]
                    /\ UNCHANGED <<thrown, result>>
    /\ UNCHANGED <<env, call, currentAccessToken, received, refreshes, writes>>

\* a tool is invoked
CallTool(i) ==
  /\ pc[i] = "idle"
  /\ \A j \in Invs : j < i => pc[j] # "idle"
  /\ \E n \in ToolNames, params \in ArgBags, now \in Clocks : Invoke(i, n, params, now)

\* refreshAccessToken without its precondition: the token request is sent
\* whatever the credentials are
StartRefreshUnchecked(i) ==
  /\ refreshes' = [refreshes EXCEPT ![i] = @ + 1]
  /\ sent' = [sent EXCEPT ![i] = Append(@, TokenFetch)]
  /\ pc' = [pc EXCEPT ![i] = "tokenFetch"]
  /\ UNCHANGED <<thrown, result>>

\* refreshAccessToken up to its fetch: the precondition, then the token request
StartRefresh(i) ==
  /\ refreshes' = [refreshes EXCEPT ![i] = @ + 1]
  /\ IF ~CanRefresh
     THEN /\ Finish(i, Throw(CannotRefresh))
          /\ UNCHANGED sent
     ELSE /\ sent' = [sent EXCEPT ![i] = Append(@, TokenFetch)]
          /\ pc' = [pc EXCEPT ![i] = "tokenFetch"]
          /\ UNCHANGED <<thrown, result>>

\* the first fetch completes, and any failure status starts a refresh
FirstResponseRefreshesOnAnyFailure(i) ==
  /\ pc[i] = "fetch"
  /\ \E r \in ResourceResponses :
       /\ received' = [received EXCEPT ![i] = Append(@, r)]
       /\ IF ~r.net
          THEN Finish(i, Throw(FetchFailed)) /\ UNCHANGED <<sent, refreshes>>
          ELSE IF ~IsOk(r.status)
          THEN StartRefresh(i)
          ELSE Finish(i, JsonParse(r.body)) /\ UNCHANGED <<sent, refreshes>>
  /\ UNCHANGED <<env, call, currentAccessToken, name, request, writes, startedAfter>>

\* the first fetch completes
FirstResponse(i) ==
  /\ pc[i] = "fetch"
  /\ \E r \in ResourceResponses :
       /\ received' = [received EXCEPT ![i] = Append(@, r)]
       /\ IF ~r.net
          THEN Finish(i, Throw(FetchFailed)) /\ UNCHANGED <<sent, refreshes>>
          ELSE IF r.status = 401
          THEN StartRefresh(i)
          ELSE IF ~IsOk(r.status)
          THEN Finish(i, Throw(FirstApiError(r))) /\ UNCHANGED <<sent, refreshes>>
          ELSE Finish(i, JsonParse(r.body)) /\ UNCHANGED <<sent, refreshes>>
  /\ UNCHANGED <<env, call, currentAccessToken, name, request, writes, startedAfter>>

\* the token fetch completes, and a success also replaces the refresh token
\* by a rotated one
TokenResponseRotatesRefreshToken(i) ==
  /\ pc[i] = "tokenFetch"
  /\ \E r \in TokenResponses(NewToken) :
       /\ received' = [received EXCEPT ![i] = Append(@, r)]
       /\ IF ~r.net
          THEN /\ Finish(i, Throw(FetchFailed))
               /\ UNCHANGED <<currentAccessToken, writes, SAGE_REFRESH_TOKEN>>
          ELSE IF ~IsOk(r.status)
          THEN /\ Finish(i, Throw(RefreshFailed(r)))
               /\ UNCHANGED <<currentAccessToken, writes, SAGE_REFRESH_TOKEN>>
          ELSE IF ~JsonParse(r.body).ok
          THEN /\ Finish(i, JsonParse(r.body))
               /\ UNCHANGED <<currentAccessToken, writes, SAGE_REFRESH_TOKEN>>
          ELSE /\ currentAccessToken' = RefreshedToken(JsonParse(r.body).value)
               /\ SAGE_REFRESH_TOKEN' = "RT" \o ToString(Len(writes) + 1)
               /\ writes' = Append(writes,
                      [by |-> i, token |-> Get(JsonParse(r.body).value, "access_token")])
               /\ pc' = [pc EXCEPT ![i] = "refreshed"]
               /\ UNCHANGED <<thrown, result>>
  /\ UNCHANGED <<SAGE_CLIENT_ID, SAGE_CLIENT_SECRET, SAGE_ACCESS_TOKEN, name, request,
                 sent, refreshes, startedAfter, call>>

\* the token fetch completes, and a refused refresh clears the shared token
TokenResponseClearsOnFailure(i) ==
  /\ pc[i] = "tokenFetch"
  /\ \E r \in TokenResponses(NewToken) :
       /\ received' = [received EXCEPT ![i] = Append(@, r)]
       /\ IF ~r.net
          THEN Finish(i, Throw(FetchFailed)) /\ UNCHANGED <<currentAccessToken, writes>>
          ELSE IF ~IsOk(r.status)
          THEN /\ Finish(i, Throw(RefreshFailed(r)))
               /\ currentAccessToken' = Str("")
               /\ UNCHANGED writes
          ELSE IF ~JsonParse(r.body).ok
          THEN Finish(i, JsonParse(r.body)) /\ UNCHANGED <<currentAccessToken, writes>>
          ELSE /\ currentAccessToken' = RefreshedToken(JsonParse(r.body).value)
               /\ writes' = Append(writes,
                      [by |-> i, token |-> Get(JsonParse(r.body).value, "access_token")])
               /\ pc' = [pc EXCEPT ![i] = "refreshed"]
               /\ UNCHANGED <<thrown, result>>
  /\ UNCHANGED <<env, call, name, request, sent, refreshes, startedAfter>>

\* the token fetch completes, and a refused refresh is swallowed: the handler
\* neither throws nor resumes
TokenResponseSwallowsFailure(i) ==
  /\ pc[i] = "tokenFetch"
  /\ \E r \in TokenResponses(NewToken) :
       /\ received' = [received EXCEPT ![i] = Append(@, r)]
       /\ IF ~r.net
          THEN Finish(i, Throw(FetchFailed)) /\ UNCHANGED <<currentAccessToken, writes>>
          ELSE IF ~IsOk(r.status)
          THEN /\ pc' = [pc EXCEPT ![i] = "pending"]
               /\ UNCHANGED <<thrown, result, currentAccessToken, writes>>
          ELSE IF ~JsonParse(r.body).ok
          THEN Finish(i, JsonParse(r.body)) /\ UNCHANGED <<currentAccessToken, writes>>
          ELSE /\ currentAccessToken' = RefreshedToken(JsonParse(r.body).value)
               /\ writes' = Append(writes,
                      [by |-> i, token |-> Get(JsonParse(r.body).value, "access_token")])
               /\ pc' = [pc EXCEPT ![i] = "refreshed"]
               /\ UNCHANGED <<thrown, result>>
  /\ UNCHANGED <<env, call, name, request, sent, refreshes, startedAfter>>

\* the token fetch completes: on success the shared token is overwritten
TokenResponse(i) ==
  /\ pc[i] = "tokenFetch"
  /\ \E r \in TokenResponses(NewToken) :
       /\ received' = [received EXCEPT ![i] = Append(@, r)]
       /\ IF ~r.net
          THEN Finish(i, Throw(FetchFailed)) /\ UNCHANGED <<currentAccessToken, writes>>
          ELSE IF ~IsOk(r.status)
          THEN Finish(i, Throw(RefreshFailed(r))) /\ UNCHANGED <<currentAccessToken, writes>>
          ELSE IF ~JsonParse(r.body).ok
          THEN Finish(i, JsonParse(r.body)) /\ UNCHANGED <<currentAccessToken, writes>>
          ELSE /\ currentAccessToken' = RefreshedToken(JsonParse(r.body).value)
               /\ writes' = Append(writes,
                      [by |-> i, token |-> Get(JsonParse(r.body).value, "access_token")])
               /\ pc' = [pc EXCEPT ![i] = "refreshed"]
               /\ UNCHANGED <<thrown, result>>
  /\ UNCHANGED <<env, call, name, request, sent, refreshes, startedAfter>>

\* sageRequest resumes after the refresh and sends the token its own refresh
\* received, not the shared one
RetryOwnToken(i) ==
  /\ pc[i] = "refreshed"
  /\ sent' = [sent EXCEPT
        ![i] = Append(@, ResourceFetch(request[i],
                            Get(JsonParse(received[i][2].body).value, "access_token")))]
  /\ pc' = [pc EXCEPT ![i] = "retryFetch"]
  /\ UNCHANGED <<env, call, currentAccessToken, name, request, received, refreshes, thrown,
                 result, writes, startedAfter>>

\* sageRequest resumes after the refresh: the header is rebuilt from the
\* shared token and the request is issued again
Retry(i) ==
  /\ pc[i] = "refreshed"
  /\ sent' = [sent EXCEPT ![i] = Append(@, ResourceFetch(request[i], currentAccessToken))]
  /\ pc' = [pc EXCEPT ![i] = "retryFetch"]
  /\ UNCHANGED <<env, call, currentAccessToken, name, request, received, refreshes, thrown,
                 result, writes, startedAfter>>

\* the retry completes, but the code inspects the first response again
\* instead of the retry's
RetryResponseReadsFirst(i) ==
  /\ pc[i] = "retryFetch"
  /\ \E r \in ResourceResponses :
       /\ received' = [received EXCEPT ![i] = Append(@, r)]
       /\ IF ~r.net
          THEN Finish(i, Throw(FetchFailed))
          ELSE IF ~IsOk(received[i][1].status)
          THEN Finish(i, Throw(RetryApiError(received[i][1])))
          ELSE Finish(i, JsonParse(received[i][1].body))
  /\ UNCHANGED <<env, call, currentAccessToken, name, request, sent, refreshes, writes,
                 startedAfter>>

\* the retry completes, and a 401 starts another refresh
RetryResponseRefreshesAgain(i) ==
  /\ pc[i] = "retryFetch"
  /\ \E r \in ResourceResponses :
       /\ received' = [received EXCEPT ![i] = Append(@, r)]
       /\ IF ~r.net
          THEN Finish(i, Throw(FetchFailed)) /\ UNCHANGED <<sent, refreshes>>
          ELSE IF r.status = 401
          THEN StartRefresh(i)
          ELSE IF ~IsOk(r.status)
          THEN Finish(i, Throw(RetryApiError(r))) /\ UNCHANGED <<sent, refreshes>>
          ELSE Finish(i, JsonParse(r.body)) /\ UNCHANGED <<sent, refreshes>>
  /\ UNCHANGED <<env, call, currentAccessToken, name, request, writes, startedAfter>>

\* the retry completes, and a failure issues the request once more
RetryResponseRetriesAgain(i) ==
  /\ pc[i] = "retryFetch"
  /\ \E r \in ResourceResponses :
       /\ received' = [received EXCEPT ![i] = Append(@, r)]
       /\ IF ~r.net
          THEN Finish(i, Throw(FetchFailed)) /\ UNCHANGED sent
          ELSE IF ~IsOk(r.status)
          THEN /\ sent' = [sent EXCEPT
                      ![i] = Append(@, ResourceFetch(request[i], currentAccessToken))]
               /\ UNCHANGED <<pc, thrown, result>>
          ELSE Finish(i, JsonParse(r.body)) /\ UNCHANGED sent
  /\ UNCHANGED <<env, call, currentAccessToken, name, request, refreshes, writes, startedAfter>>

\* the retry completes: its outcome is final
RetryResponse(i) ==
  /\ pc[i] = "retryFetch"
  /\ \E r \in ResourceResponses :
       /\ received' = [received EXCEPT ![i] = Append(@, r)]
       /\ IF ~r.net
          THEN Finish(i, Throw(FetchFailed))
          ELSE IF ~IsOk(r.status)
          THEN Finish(i, Throw(RetryApiError(r)))
          ELSE Finish(i, JsonParse(r.body))
  /\ UNCHANGED <<env, call, currentAccessToken, name, request, sent, refreshes, writes,
                 startedAfter>>

Next ==
  \E i \in Invs :
    \/ CallTool(i)
    \/ FirstResponse(i)
    \/ TokenResponse(i)
    \/ Retry(i)
    \/ RetryResponse(i)

Spec == Init /\ [][Next]_vars

\* every fetch that was issued completes, and a handler that can resume does
Fairness ==
  \A i \in Invs :
    /\ WF_vars(FirstResponse(i))
    /\ WF_vars(TokenResponse(i))
    /\ WF_vars(Retry(i))
    /\ WF_vars(RetryResponse(i))

FairSpec == Spec /\ Fairness

\* ------------------------------------------------------------------------
\* Request shaping: one invocation, over every tool and a range of arguments
\* ------------------------------------------------------------------------

\* the names a request may carry: every tool, and one that is not a tool
ShapeToolNames == CaseNames \cup {"sage_delete_contact"}

Widget == Obj("description" :> Str("Widget") @@ "quantity" :> Num(2) @@ "unit_price" :> Num(10))

Gadget ==
  Obj("description" :> Str("Gadget") @@ "quantity" :> Num(1) @@ "unit_price" :> Num(5)
        @@ "tax_rate_id" :> Str("IE_STANDARD") @@ "ledger_account_id" :> Str("L1"))

\* the arguments a request may carry (amounts are whole numbers)
ShapeBags ==
  { Undefined,
    EmptyObj,
    Obj("search" :> Str("acme")),
    Obj("search" :> Str("acme ltd") @@ "contact_type" :> Str("all") @@ "page" :> Num(2)),
    Obj("contact_type" :> Str("CUSTOMER") @@ "items_per_page" :> Num(50)
          @@ "status" :> Str("UNPAID") @@ "from_date" :> Str("2026-01-01")),
    Obj("search" :> Str("") @@ "page" :> Num(0) @@ "active" :> Bool(FALSE)),
    Obj("active" :> Bool(TRUE) @@ "invoice_id" :> Str("I1")),
    Obj("name" :> Str("Acme")),
    Obj("name" :> Str("Acme") @@ "contact_type_ids" :> Arr(<<Str("CUSTOMER")>>)
          @@ "city" :> Str("Dublin") @@ "email" :> Str("a@acme.ie")),
    Obj("contact_id" :> Str("C1") @@ "line_items" :> Arr(<<Widget>>)),
    Obj("contact_id" :> Str("C1") @@ "date" :> Str("2026-01-31")
          @@ "due_date" :> Str("2026-02-28") @@ "line_items" :> Arr(<<Gadget, Widget>>)),
    Obj("contact_id" :> Str("C1") @@ "date" :> Str("") @@ "line_items" :> Arr(<<Widget>>)),
    Obj("contact_id" :> Str("C1") @@ "line_items" :> Arr(<<>>)),
    Obj("description" :> Str("Widget") @@ "sales_price" :> Num(10)),
    Obj("bank_account_id" :> Str("B1") @@ "date" :> Str("2026-01-31")
          @@ "total_amount" :> Num(100) @@ "tax_rate_id" :> Str("IE_EXEMPT")
          @@ "ledger_account_id" :> Str("L1")),
    Obj("contact_id" :> Str("C1") @@ "bank_account_id" :> Str("B1")
          @@ "date" :> Str("2026-01-31") @@ "total_amount" :> Num(100)
          @@ "invoice_allocations" :>
               Arr(<< Obj("invoice_id" :> Str("I1") @@ "amount" :> Num(100)) >>)) }

\* what the clock may read
ShapeClocks ==
  Clocks \cup { [date |-> "2026-12-31", time |-> "23:59:59.999Z"] }

\* a configured server that is about to receive one request
ShapeInit ==
  /\ SAGE_CLIENT_ID = "client-id"
  /\ SAGE_CLIENT_SECRET = "client-secret"
  /\ SAGE_ACCESS_TOKEN = "AT0"
  /\ SAGE_REFRESH_TOKEN = "RT0"
  /\ currentAccessToken = Str(SAGE_ACCESS_TOKEN)
  /\ pc = [i \in Invs |-> "idle"]
  /\ name = [i \in Invs |-> ""]
  /\ request = [i \in Invs |-> NoRequest]
  /\ sent = [i \in Invs |-> <<>>]
  /\ received = [i \in Invs |-> <<>>]
  /\ refreshes = [i \in Invs |-> 0]
  /\ thrown = [i \in Invs |-> NoError]
  /\ result = [i \in Invs |-> NoResult]
  /\ writes = <<>>
  /\ startedAfter = [i \in Invs |-> 0]
  /\ call \in [name : ShapeToolNames, arguments : ShapeBags, now : ShapeClocks]

\* the handler runs for the request
ShapeCall ==
  /\ pc[1] = "idle"
  /\ Invoke(1, call.name, call.arguments, call.now)

ShapeNext == ShapeCall

ShapeSpec == ShapeInit /\ [][ShapeNext]_vars

\* ------------------------------------------------------------------------
\* Vocabulary of the properties
\* ------------------------------------------------------------------------

\* the endpoints of the requests an invocation has sent, in order
Endpoints(i) == [k \in 1..Len(sent[i]) |-> sent[i][k].to]

\* number of requests an invocation has sent to an endpoint
Count(i, to) == Cardinality({k \in 1..Len(sent[i]) : sent[i][k].to = to})

\* the k-th fetch of the invocation completed with an HTTP response
Answered(i, k) == Len(received[i]) >= k /\ received[i][k].net

\* the first resource response of the invocation was 401
FirstWas401(i) == Answered(i, 1) /\ received[i][1].status = 401

\* the token endpoint answered the invocation's refresh with 2xx and JSON
RefreshSucceeded(i) ==
  /\ FirstWas401(i)
  /\ Answered(i, 2)
  /\ IsOk(received[i][2].status)
  /\ JsonParse(received[i][2].body).ok

\* the response to the invocation's retry has arrived
RetryAnswered(i) == RefreshSucceeded(i) /\ Answered(i, 3)

ErrorResult(msg) == [kind |-> "response", isError |-> TRUE, text |-> <<"Error: ">> \o msg]

\* ------------------------------------------------------------------------
\* Properties
\* ------------------------------------------------------------------------

\* C1: an invocation of a registered tool whose first response is 401, whose
\* refresh succeeds and whose retry answers 2xx with a JSON body returns the
\* decoded body of the retry, not error-flagged, having sent exactly the
\* requests resource, token, resource, the retry to the same url and method.
C1_RefreshThenRetryReturnsRetryBody ==
  \A i \in Invs :
    ( /\ RetryAnswered(i)
      /\ IsOk(received[i][3].status)
      /\ JsonParse(received[i][3].body).ok )
    => /\ pc[i] = "done"
       /\ name[i] \in CaseNames
       /\ result[i] = [kind |-> "response", isError |-> FALSE,
                       text |-> JsonStringify(JsonParse(received[i][3].body).value)]
       /\ Endpoints(i) = <<"resource", "token", "resource">>
       /\ sent[i][3].url = sent[i][1].url
       /\ sent[i][3].method = sent[i][1].method

\* reached: a 401, a refresh, and a retry answered 200 with the body ["ok"]
C1_Witness ==
  \E i \in Invs :
    /\ pc[i] = "done"
    /\ RetryAnswered(i)
    /\ received[i][1].body = ArrayBody("unauthorized")
    /\ received[i][3] = HttpResponse(200, ArrayBody("ok"))
    /\ result[i].text = <<"[", "\n  ", "\"", "ok", "\"", "\n", "]">>

\* C2: no invocation ever calls the refresh procedure more than once.
C2_AtMostOneRefreshPerInvocation ==
  \A i \in Invs : refreshes[i] <= 1 /\ Count(i, "token") <= refreshes[i]

\* reached: an invocation that refreshed once, whose retry was again 401
C2_Witness ==
  \E i \in Invs :
    /\ pc[i] = "done"
    /\ refreshes[i] = 1
    /\ RetryAnswered(i)
    /\ received[i][3].status = 401

\* C3: when the retry is answered 401 or any other non-2xx, the invocation
\* ends there with the error-flagged "Sage API error" of that status: one
\* refresh, two resource requests, nothing sent after the retry.
C3_FailedRetryIsFinal ==
  \A i \in Invs :
    (RetryAnswered(i) /\ ~IsOk(received[i][3].status))
    => /\ pc[i] = "done"
       /\ result[i] = ErrorResult(<<"Sage API error: ", ToString(received[i][3].status),
                                    " ", StatusText(received[i][3].status)>>)
       /\ refreshes[i] = 1
       /\ Endpoints(i) = <<"resource", "token", "resource">>
       /\ Len(received[i]) = 3

\* reached: both kinds of failed retry, a 401 and a 403
C3_Witness ==
  /\ \E i \in Invs : pc[i] = "done" /\ RetryAnswered(i) /\ received[i][3].status = 401
  /\ \E i \in Invs : pc[i] = "done" /\ RetryAnswered(i) /\ received[i][3].status = 403

\* C4: after a 401, a refresh that cannot be attempted (a credential is
\* missing) or that the token endpoint answers with non-2xx ends the
\* invocation with the error-flagged refresh error, and the resource request
\* is not issued again.
C4_FailedRefreshIsFinal ==
  \A i \in Invs :
    /\ (FirstWas401(i) /\ ~CanRefresh)
       => /\ pc[i] = "done"
          /\ result[i] = ErrorResult(CannotRefresh)
          /\ Endpoints(i) = <<"resource">>
    /\ (FirstWas401(i) /\ Answered(i, 2) /\ ~IsOk(received[i][2].status))
       => /\ pc[i] = "done"
          /\ result[i] = ErrorResult(<<"Token refresh failed: ",
                                       ToString(received[i][2].status), " ",
                                       StatusText(received[i][2].status)>>)
          /\ Endpoints(i) = <<"resource", "token">>

\* reached: a 401 with no refresh token configured
C4_Witness ==
  \E i \in Invs :
    /\ pc[i] = "done"
    /\ FirstWas401(i)
    /\ SAGE_REFRESH_TOKEN = ""
    /\ result[i] = ErrorResult(CannotRefresh)

\* reached as well: a 401 and a token endpoint that answers 401
C4_WitnessTokenEndpoint ==
  \E i \in Invs :
    /\ pc[i] = "done"
    /\ FirstWas401(i)
    /\ Answered(i, 2)
    /\ received[i][2].status = 401

\* the switch of the invocation reached sageRequest
ReachedGateway(i) == request[i] # NoRequest

\* C5 as stated: every invocation made with no access token configured,
\* whatever its tool name and arguments, returns the error-flagged "No
\* access token configured" message and sends nothing.
C5_Original ==
  \A i \in Invs :
    (SAGE_ACCESS_TOKEN = "" /\ pc[i] # "idle")
    => result[i] = ErrorResult(NoAccessToken) /\ sent[i] = <<>>

\* C5, amended: every invocation made with no access token configured
\* returns an error-flagged response and sends nothing; the text is the "No
\* access token configured" message when the switch reaches sageRequest (a
\* registered tool whose arguments shape without a throw), and otherwise the
\* unknown-tool message or the TypeError thrown while shaping the arguments.
C5_NoTokenNoNetwork ==
  \A i \in Invs :
    (SAGE_ACCESS_TOKEN = "" /\ pc[i] # "idle")
    => /\ pc[i] = "done"
       /\ sent[i] = <<>>
       /\ received[i] = <<>>
       /\ result[i].kind = "response"
       /\ result[i].isError
       /\ ReachedGateway(i) => result[i] = ErrorResult(NoAccessToken)
       /\ name[i] \in PlainTools => ReachedGateway(i)
       /\ ~ReachedGateway(i) =>
            result[i] \in { ErrorResult(UnknownTool(name[i])),
                            ErrorResult(CannotRead(FirstRead(name[i]))),
                            ErrorResult(CannotRead("map")) }

\* reached: with no token configured, a tool that reads no argument and a
\* create tool with a complete argument bag both get the AuthError message
C5_Witness ==
  /\ SAGE_ACCESS_TOKEN = ""
  /\ \E i, j \in Invs :
       /\ name[i] = "sage_list_bank_accounts"
       /\ name[j] = "sage_create_sales_invoice"
       /\ result[i] = ErrorResult(NoAccessToken)
       /\ result[j] = ErrorResult(NoAccessToken)

\* the invocation ended with the decoded body of a 2xx resource response
Succeeded(i) ==
  /\ Len(received[i]) \in {1, 3}
  /\ received[i][Len(received[i])].net
  /\ IsOk(received[i][Len(received[i])].status)
  /\ JsonParse(received[i][Len(received[i])].body).ok

\* C6: every invocation ends with a response, never a fault of the
\* transport; whatever was thrown inside the handler is returned
\* error-flagged as "Error: <message>", and the response is error-flagged
\* exactly when the invocation did not end with a decoded 2xx body. Nothing
\* is returned before the invocation ends.
C6_FailuresBecomeErrorResults ==
  \A i \in Invs :
    /\ pc[i] # "done" => result[i] = NoResult
    /\ pc[i] = "done" =>
         /\ result[i].kind = "response"
         /\ thrown[i] # NoError => result[i] = ErrorResult(thrown[i])
         /\ result[i].isError <=> ~Succeeded(i)
         /\ result[i].isError => Head(result[i].text) = "Error: " /\ Len(result[i].text) > 1

\* reached: invocations that failed in the switch and after a network error
C6_Witness ==
  \E i, j \in Invs :
    /\ pc[i] = "done" /\ pc[j] = "done"
    /\ thrown[i] = CannotRead("map")
    /\ thrown[j] = FetchFailed
    /\ result[i].isError /\ result[j].isError

\* C7: invoking a name the switch has no case for ends at once with the
\* error-flagged "Unknown tool: <name>", sends nothing and leaves the
\* shared access token as it was.
C7_UnknownTool ==
  [][ \A i \in Invs :
        (pc[i] = "idle" /\ pc'[i] # "idle" /\ name'[i] \notin CaseNames)
        => /\ pc'[i] = "done"
           /\ result'[i] = ErrorResult(<<"Unknown tool: ", name'[i]>>)
           /\ sent'[i] = <<>>
           /\ received'[i] = <<>>
           /\ currentAccessToken' = currentAccessToken ]_vars

\* reached: an unknown tool invoked after a refresh has replaced the token
C7_Witness ==
  \E i \in Invs :
    /\ pc[i] = "done"
    /\ name[i] = "sage_delete_contact"
    /\ startedAfter[i] > 0
    /\ currentAccessToken = Str("AT1")

\* C8 as stated: an invocation makes at most two network calls in total.
C8_Original == \A i \in Invs : Len(sent[i]) <= 2

\* C8, amended: an invocation makes at most three network calls: at most
\* two to the resource endpoint, the second only after a 401 first response
\* and a refresh, and at most one to the token endpoint, only after a 401.
C8_AtMostThreeRoundTrips ==
  \A i \in Invs :
    /\ Len(sent[i]) <= 3
    /\ Count(i, "resource") <= 2
    /\ Count(i, "token") <= 1
    /\ Len(sent[i]) >= 2 => FirstWas401(i)
    /\ Count(i, "resource") = 2 => RefreshSucceeded(i)

\* reached: three calls, the last answered 403
C8_Witness ==
  \E i \in Invs :
    /\ pc[i] = "done"
    /\ Len(sent[i]) = 3
    /\ received[i][3].net
    /\ received[i][3].status = 403

\* C9: the first request of an invocation that starts after a refresh has
\* completed carries the token the latest such refresh received, not the
\* startup token.
C9_LaterCallsUseRefreshedToken ==
  \A i \in Invs :
    (startedAfter[i] > 0 /\ sent[i] # <<>>)
    => /\ sent[i][1].authorization = <<"Bearer ", ToStr(writes[startedAfter[i]].token)>>
       /\ sent[i][1].authorization # <<"Bearer ", SAGE_ACCESS_TOKEN>>

\* reached: an invocation that started after a refresh and sent its token
C9_Witness ==
  \E i \in Invs :
    /\ startedAfter[i] = 1
    /\ writes[1].token = Str("AT1")
    /\ SAGE_ACCESS_TOKEN = "AT0"
    /\ sent[i] # <<>>
    /\ sent[i][1].authorization = <<"Bearer ", "AT1">>

\* C10: invocations whose first response is 401 each send their own token
\* request, whatever the others are doing, each successful refresh
\* overwrites the shared token, and the token in memory is the one received
\* by the refresh that completed last.
C10_ConcurrentRefreshesLastWins ==
  /\ \A i \in Invs : (FirstWas401(i) /\ CanRefresh) => Count(i, "token") = 1
  /\ \A i \in Invs :
       RefreshSucceeded(i)
       => Cardinality({k \in 1..Len(writes) : writes[k].by = i}) = 1
  /\ writes # <<>> => currentAccessToken = writes[Len(writes)].token

\* reached: two invocations that both began before any refresh completed;
\* the second refreshed first, the first refreshed last, and its token stays
C10_Witness ==
  /\ Len(writes) = 2
  /\ writes[1] = [by |-> 2, token |-> Str("AT1")]
  /\ writes[2] = [by |-> 1, token |-> Str("AT2")]
  /\ startedAfter[1] = 0 /\ startedAfter[2] = 0
  /\ currentAccessToken = Str("AT2")

\* the token requests sent so far, over all invocations
TokenRequests ==
  UNION { { sent[i][k] : k \in {x \in 1..Len(sent[i]) : sent[i][x].to = "token"} }
          : i \in Invs }

\* C11: the access token is the only credential that is ever reassigned: the
\* refresh token, the client id and the client secret never change, and every
\* token request ever sent carries the same form, the one built from them.
C11_OnlyAccessTokenReassigned ==
  /\ [][env' = env]_vars
  /\ [](\A q \in TokenRequests : q = TokenFetch)

\* reached: two refreshes have been requested, the second after the first
\* replaced the access token, both with the refresh token RT0
C11_Witness ==
  /\ currentAccessToken # Str(SAGE_ACCESS_TOKEN)
  /\ \A i \in Invs : Count(i, "token") = 1
  /\ \A i \in Invs : sent[i][2].form[2] = <<"refresh_token", "RT0">>
  /\ writes # <<>>
  /\ startedAfter[2] = 1

\* C12: a token request is sent only when the refresh token, the client id
\* and the client secret are all non-empty; when one of them is empty an
\* invocation whose first response is 401 ends with the error-flagged
\* "Cannot refresh token" result and has sent nothing to the token endpoint.
C12_RefreshNeedsAllCredentials ==
  \A i \in Invs :
    /\ Count(i, "token") > 0
       => (SAGE_REFRESH_TOKEN # "" /\ SAGE_CLIENT_ID # "" /\ SAGE_CLIENT_SECRET # "")
    /\ ( /\ FirstWas401(i)
         /\ (SAGE_REFRESH_TOKEN = "" \/ SAGE_CLIENT_ID = "" \/ SAGE_CLIENT_SECRET = "") )
       => /\ pc[i] = "done"
          /\ result[i] = ErrorResult(CannotRefresh)
          /\ Endpoints(i) = <<"resource">>

\* reached: only the client secret is missing, and a first response was 401
C12_Witness ==
  \E i \in Invs :
    /\ SAGE_REFRESH_TOKEN = "RT0" /\ SAGE_CLIENT_ID = "client-id"
    /\ SAGE_CLIENT_SECRET = ""
    /\ FirstWas401(i)
    /\ pc[i] = "done"
    /\ refreshes[i] = 1

\* C13: a first response that is non-2xx and not 401 ends the invocation
\* with the error-flagged "Sage API error" of that response, with no refresh
\* and no second resource request; a refresh is only ever begun after a
\* first response of 401.
C13_OnlyA401StartsARefresh ==
  \A i \in Invs :
    /\ ( /\ Answered(i, 1)
         /\ ~IsOk(received[i][1].status)
         /\ received[i][1].status # 401 )
       => /\ pc[i] = "done"
          /\ result[i] = ErrorResult(FirstApiError(received[i][1]))
          /\ refreshes[i] = 0
          /\ Endpoints(i) = <<"resource">>
    /\ refreshes[i] > 0 => FirstWas401(i)

\* reached: a first response of 403 with credentials that would allow a refresh
C13_Witness ==
  \E i \in Invs :
    /\ pc[i] = "done"
    /\ CanRefresh
    /\ received[i] = <<HttpResponse(403, ArrayBody("forbidden"))>>
    /\ result[i].text = <<"Error: ", "Sage API error: ", "403", " ", "Forbidden", " - ",
                          "[\"", "forbidden", "\"]">>

\* C14: every "Sage API error" result carries the status and the body text
\* of the response that failed, be it the first response or the retry's.
C14_EveryApiErrorCarriesBody ==
  \A i \in Invs :
    ( /\ pc[i] = "done"
      /\ thrown[i] # NoError
      /\ Head(thrown[i]) = "Sage API error: " )
    => thrown[i] = FirstApiError(received[i][Len(received[i])])

\* C20: the shared token is the startup token until a refresh succeeds and
\* from then on the token of the latest successful refresh; it is written
\* once per successful refresh and never otherwise, so an invocation's first
\* request carries the token left by the refreshes completed before it
\* started, the startup token when a refresh before it failed.
C20_TokenChangesOnlyOnSuccessfulRefresh ==
  /\ currentAccessToken =
       IF writes = <<>> THEN Str(SAGE_ACCESS_TOKEN) ELSE writes[Len(writes)].token
  /\ Len(writes) = Cardinality({i \in Invs : RefreshSucceeded(i)})
  /\ \A i \in Invs :
       sent[i] # <<>>
       => sent[i][1].authorization =
            Bearer(IF startedAfter[i] = 0 THEN Str(SAGE_ACCESS_TOKEN)
                   ELSE writes[startedAfter[i]].token)

\* reached: the first invocation's refresh was refused, and the second
\* invocation, begun afterwards, sent the startup token again
C20_Witness ==
  /\ pc[1] = "done"
  /\ FirstWas401(1)
  /\ Len(received[1]) = 2
  /\ received[1][2] = HttpResponse(401, ArrayBody("invalid_grant"))
  /\ result[1] = ErrorResult(RefreshFailed(received[1][2]))
  /\ Len(received[2]) = 1
  /\ sent[2][1].authorization = <<"Bearer ", "AT0">>
  /\ currentAccessToken = Str("AT0")

\* ------------------------------------------------------------------------
\* Vocabulary of the shaping properties
\* ------------------------------------------------------------------------

InvoiceTools == {"sage_create_sales_invoice", "sage_create_purchase_invoice"}

\* the request under study was sent: its url and its JSON body
Shaped == sent[1] # <<>>

ShapedUrl == sent[1][1].url

ShapedBody == sent[1][1].body

\* the invoice inside the JSON body of a create-invoice request
ShapedInvoice ==
  IF call.name = "sage_create_sales_invoice"
  THEN Get(ShapedBody, "sales_invoice")
  ELSE Get(ShapedBody, "purchase_invoice")

RECURSIVE KeysOf(_)
\* every key that occurs in a JSON document, at any depth
KeysOf(v) ==
  CASE v.t = "obj" -> DOMAIN v.f \cup UNION { KeysOf(v.f[k]) : k \in DOMAIN v.f }
    [] v.t = "arr" -> UNION { KeysOf(v.a[j]) : j \in 1..Len(v.a) }
    [] OTHER -> {}

\* null, an empty array or an empty object
IsEmptyValue(v) ==
  \/ v.t = "null"
  \/ v.t = "arr" /\ Len(v.a) = 0
  \/ v.t = "obj" /\ DOMAIN v.f = {}

RECURSIVE EmptyKeysOf(_)
\* the keys of a JSON document, at any depth, whose value is null, an empty
\* array or an empty object
EmptyKeysOf(v) ==
  CASE v.t = "obj" ->
         { k \in DOMAIN v.f : IsEmptyValue(v.f[k]) }
           \cup UNION { EmptyKeysOf(v.f[k]) : k \in DOMAIN v.f }
    [] v.t = "arr" -> UNION { EmptyKeysOf(v.a[j]) : j \in 1..Len(v.a) }
    [] OTHER -> {}

\* the body keys an argument of a create tool is written to
BodyKeys(arg) ==
  CASE arg = "line_items" -> {"invoice_lines"}
    [] arg = "invoice_allocations" -> {"allocated_artefacts"}
    [] arg = "sales_price" -> {"sales_prices", "price"}
    [] OTHER -> {arg}

\* the query key a filter argument of a list tool is written to
QueryKey(arg) ==
  CASE arg = "contact_type" -> "contact_type_id"
    [] arg = "status" -> "status_id"
    [] OTHER -> arg

\* the url carries a query parameter of that key
HasQueryKey(url, key) ==
  \E x \in 1..(Len(url) - 1) : url[x] = key /\ url[x + 1] = "="

\* the url carries the query parameter key=value
HasQueryPair(url, key, value) ==
  \E x \in 1..(Len(url) - 2) : url[x] = key /\ url[x + 1] = "=" /\ url[x + 2] = value

\* ------------------------------------------------------------------------
\* Shaping properties
\* ------------------------------------------------------------------------

\* C15: for every create tool and every arguments object that has the
\* tool's required fields, an optional field absent from the arguments has
\* no key in the JSON body (the date of an invoice, which is defaulted,
\* apart), nothing is put in the query string, and the body holds no null,
\* empty array or empty object under a key the caller did not supply.
C15_AbsentOptionalFieldsOmitted ==
  ( /\ call.name \in CreateTools
    /\ Shaped
    /\ Required(call.name) \subseteq DOMAIN call.arguments.f )
  => /\ \A arg \in (Properties(call.name) \ Required(call.name)) \ DOMAIN call.arguments.f :
          \/ call.name \in InvoiceTools /\ arg = "date"
          \/ BodyKeys(arg) \cap KeysOf(ShapedBody) = {}
     /\ \A k \in EmptyKeysOf(ShapedBody) :
          \E arg \in DOMAIN call.arguments.f : k \in BodyKeys(arg)
     /\ ShapedUrl = <<BASE_URL, BasePath(call.name)>>

\* C16 as stated: the body of a create-invoice request always has a date,
\* the supplied one whenever the arguments have a date, else today's.
C16_Original ==
  (call.name \in InvoiceTools /\ Shaped)
  => /\ "date" \in DOMAIN ShapedInvoice.f
     /\ ShapedInvoice.f["date"] =
          IF "date" \in DOMAIN call.arguments.f
          THEN call.arguments.f["date"]
          ELSE Str(call.now.date)

\* C16: the body of a create-invoice request always has a date: the supplied
\* one when the arguments have a date that is not empty, and the current
\* date (YYYY-MM-DD) when the date is omitted or is the empty string.
C16_DateDefaultsToToday ==
  (call.name \in InvoiceTools /\ Shaped)
  => /\ "date" \in DOMAIN ShapedInvoice.f
     /\ ShapedInvoice.f["date"] =
          IF "date" \in DOMAIN call.arguments.f /\ call.arguments.f["date"] # Str("")
          THEN call.arguments.f["date"]
          ELSE Str(call.now.date)

\* reached: a purchase invoice created on 2026-12-31 with the date ""
C16_Witness ==
  /\ call.name = "sage_create_purchase_invoice"
  /\ call.now.date = "2026-12-31"
  /\ Shaped
  /\ Get(call.arguments, "date") = Str("")
  /\ ShapedInvoice.f["date"] = Str("2026-12-31")

\* C17: the invoice_lines of a sage_create_sales_invoice body has one entry
\* per supplied line item, in the same order, each with the item's
\* description, quantity and unit_price unchanged, and with a tax_rate_id or
\* ledger_account_id key exactly when the item has it, then with its value.
C17_OneLinePerItem ==
  (call.name = "sage_create_sales_invoice" /\ Shaped)
  => LET items == call.arguments.f["line_items"].a
         lines == Get(ShapedInvoice, "invoice_lines")
     IN /\ lines.t = "arr"
        /\ Len(lines.a) = Len(items)
        /\ \A j \in 1..Len(items) :
             /\ lines.a[j].t = "obj"
             /\ DOMAIN lines.a[j].f \subseteq
                  {"description", "quantity", "unit_price", "tax_rate_id", "ledger_account_id"}
             /\ \A k \in {"description", "quantity", "unit_price"} :
                  Get(lines.a[j], k) = Get(items[j], k)
             /\ \A k \in {"tax_rate_id", "ledger_account_id"} :
                  /\ (k \in DOMAIN lines.a[j].f) = (k \in DOMAIN items[j].f)
                  /\ Get(lines.a[j], k) = Get(items[j], k)

\* reached: two items, the first with a tax rate and a ledger account, the
\* second with neither
C17_Witness ==
  /\ call.name = "sage_create_sales_invoice"
  /\ Shaped
  /\ Get(call.arguments, "line_items") = Arr(<<Gadget, Widget>>)
  /\ Get(ShapedInvoice, "invoice_lines") = Arr(<<Gadget, Widget>>)

\* C18: a list tool never invents a filter: a filter the arguments do not
\* have is not in the query string, with no filter at all the path has no
\* "?" suffix, and sage_list_contacts with {search: "acme"} requests
\* /contacts?search=acme.
C18_ListToolsNeverDefaultAFilter ==
  (call.name \in ListTools /\ Shaped)
  => /\ \A arg \in Properties(call.name) \ DOMAIN call.arguments.f :
          ~HasQueryKey(ShapedUrl, QueryKey(arg))
     /\ Properties(call.name) \cap DOMAIN call.arguments.f = {}
          => ShapedUrl = <<BASE_URL, BasePath(call.name)>>
     /\ (call.name = "sage_list_contacts" /\ call.arguments = Obj("search" :> Str("acme")))
          => ShapedUrl = <<BASE_URL, "/contacts", "?", "search", "=", "acme">>

\* reached: sage_list_contacts with a search, a page and contact_type "all"
C18_Witness ==
  /\ call.name = "sage_list_contacts"
  /\ Shaped
  /\ DOMAIN call.arguments.f = {"search", "contact_type", "page"}
  /\ ShapedUrl = <<BASE_URL, "/contacts", "?", "search", "=", "acme+ltd", "&",
                   "page", "=", "2">>

\* C19: when every issued fetch completes, every invocation that has begun
\* eventually returns: an invocation that has begun never goes back to idle,
\* and from some point on no invocation is in between. It returns exactly
\* one response: a finished invocation holds one result, and a result that
\* was returned never changes.
C19_EveryInvocationReturns ==
  /\ <>[](\A i \in Invs : pc[i] \in {"idle", "done"})
  /\ [][\A i \in Invs : pc[i] # "idle" => pc'[i] # "idle"]_vars
  /\ [](\A i \in Invs : (pc[i] = "done") = (result[i].kind = "response"))
  /\ [][\A i \in Invs : result[i] # NoResult => result'[i] = result[i]]_vars

\* reached: every invocation was answered 401, refreshed successfully, was
\* answered 401 again, and has returned
C19_Witness ==
  \A i \in Invs :
    /\ RetryAnswered(i)
    /\ received[i][2].body = TokenBody("AT" \o ToString(i))
    /\ received[i][3].status = 401
    /\ pc[i] = "done"
    /\ result[i] = ErrorResult(RetryApiError(received[i][3]))

\* C21: in any interleaving, the step in which an invocation issues its
\* retry puts the shared token of that moment in the Authorization header,
\* and that token is the one stored by the latest completed refresh, which
\* completed after the invocation began: the invocation's own refresh or a
\* later one of another invocation.
C21_RetryCarriesSharedToken ==
  [][\A i \in Invs :
       (pc[i] = "refreshed" /\ pc'[i] = "retryFetch")
       => /\ Len(sent'[i]) = 3
          /\ sent'[i][3].authorization = Bearer(currentAccessToken)
          /\ Len(writes) > startedAfter[i]
          /\ currentAccessToken = writes[Len(writes)].token
          /\ \E k \in (startedAfter[i] + 1)..Len(writes) : writes[k].by = i]_vars

\* reached: the first invocation's refresh received AT1, the second's
\* received AT2 before the first resumed, and the first retried with AT2
C21_Witness ==
  /\ Len(writes) = 2
  /\ writes[1] = [by |-> 1, token |-> Str("AT1")]
  /\ writes[2] = [by |-> 2, token |-> Str("AT2")]
  /\ Len(sent[1]) = 3
  /\ sent[1][3].authorization = <<"Bearer ", "AT2">>

\* C22: when a non-empty access token was configured at startup, the shared
\* token is non-empty in every reachable state and no invocation ends with
\* the "No access token configured" error, whatever the token endpoint
\* answers.
C22_TokenNeverEmpty ==
  SAGE_ACCESS_TOKEN # ""
  => /\ Truthy(currentAccessToken)
     /\ \A i \in Invs : result[i] # ErrorResult(NoAccessToken)

\* C23: the names the tool listing returns are the names the switch has a
\* case for: an invocation of a listed name never ends with the "Unknown
\* tool" error, and sends its request when the arguments have the fields the
\* tool requires; an invocation of any other name ends with that error.
C23_ListedToolsAreDispatched ==
  /\ ListedToolNames = CaseNames
  /\ pc[1] # "idle"
     => /\ (call.name \in ListedToolNames)
             = (result[1] # ErrorResult(UnknownTool(call.name)))
        /\ ( /\ call.name \in ListedToolNames
             /\ \/ call.name \in PlainTools
                \/ /\ call.arguments # Undefined
                   /\ Required(call.name) \subseteq DOMAIN call.arguments.f )
           => Shaped

\* reached: the listed tool sage_get_business, invoked without arguments,
\* has sent its request
C23_Witness ==
  /\ call.name = "sage_get_business"
  /\ call.arguments = Undefined
  /\ Shaped
  /\ ShapedUrl = <<BASE_URL, "/business">>

\* C24: a filter supplied to a list tool is in the query string exactly when
\* its value is truthy, then with its value as text: a page of 0 and an
\* empty search are dropped, and contact_type "all" gives no
\* contact_type_id. The exception is active of sage_list_products, which is
\* sent whenever it is supplied: active false goes out as active=false.
C24_FiltersEmittedWhenTruthy ==
  (call.name \in ListTools /\ Shaped)
  => /\ \A arg \in Properties(call.name) \cap DOMAIN call.arguments.f :
          LET v == call.arguments.f[arg]
              sentAs == FormEncode(ToStr(v))
          IN IF call.name = "sage_list_products" /\ arg = "active"
             THEN HasQueryPair(ShapedUrl, "active", sentAs)
             ELSE /\ HasQueryKey(ShapedUrl, QueryKey(arg))
                       = (Truthy(v) /\ ~(arg = "contact_type" /\ v = Str("all")))
                  /\ HasQueryKey(ShapedUrl, QueryKey(arg))
                       => HasQueryPair(ShapedUrl, QueryKey(arg), sentAs)
     /\ ( /\ call.name = "sage_list_products"
          /\ call.arguments = Obj("search" :> Str("") @@ "page" :> Num(0)
                                    @@ "active" :> Bool(FALSE)) )
        => ShapedUrl = <<BASE_URL, "/products", "?", "active", "=", "false">>

\* reached: sage_list_products with an empty search, page 0 and active false
C24_Witness ==
  /\ call.name = "sage_list_products"
  /\ Shaped
  /\ Get(call.arguments, "search") = Str("")
  /\ Get(call.arguments, "page") = Num(0)
  /\ Get(call.arguments, "active") = Bool(FALSE)
  /\ HasQueryPair(ShapedUrl, "active", "false")
  /\ ~HasQueryKey(ShapedUrl, "page")

====
